---------------------------- MODULE Spec2Model ----------------------------
(***************************************************************************)
(* The asynchronous logging pipeline of logging_module.py.                 *)
(*                                                                         *)
(* init() mutates the module-level LOGGING_CONFIG dictionary and applies   *)
(* it with logging.config.dictConfig.  Applying the configuration builds   *)
(* a new QueueListenerHandler, whose constructor starts a QueueListener    *)
(* thread and registers its stop() with atexit.  The queue is the default  *)
(* argument Queue(1000) of QueueListenerHandler.__init__: it is evaluated  *)
(* once, when the class body is executed, so every handler instance and    *)
(* every listener thread of the process share that one queue.              *)
(*                                                                         *)
(* Threads: the producer (application code calling logger.log), one        *)
(* listener thread per QueueListenerHandler ever built, and the exit       *)
(* sequence that runs the atexit hooks in reverse order of registration.   *)
(***************************************************************************)
EXTENDS Integers, Sequences, FiniteSets

\* ----------------------------------------------------------------- bounds
MaxInits == 2
MaxRecords == 2
\* Queue(1000), scaled down so that a full queue is reached.
QueueCapacity == 2
\* The logging calls of a burst that overruns the queue.
MaxBurst == 3
\* The item ids of GET /items/{item_id} run over -MaxItemId..MaxItemId.
MaxItemId == 42
\* The sink writes that fail in one run.
MaxFailures == 2
\* The requests served in one run.
MaxRequests == 3
\* The longest list handed to _resolve_handlers.
MaxListLen == 2

\* ------------------------------------------------------- logging levels
NOTSET == 0
DEBUG == 10
INFO == 20
WARNING == 30
ERROR == 40
CRITICAL == 50
Levels == {DEBUG, INFO, WARNING, ERROR, CRITICAL}

\* QueueListener._sentinel: the queue entry that tells a listener to end.
Sentinel == 0

\* The producer's thread, as the writer of a sink line.
Producer == 0

VARIABLES
    cfgStreamLevel,   \* LOGGING_CONFIG['handlers']['stream']['level']
    cfgRootLevel,     \* LOGGING_CONFIG['loggers']['']['level']
    cfgQueueHandlers, \* LOGGING_CONFIG['handlers']['queue_handler']['handlers']
    cfgRootHandlers,  \* LOGGING_CONFIG['loggers']['']['handlers']
    cfgPropagate,     \* LOGGING_CONFIG['loggers']['']['propagate']
    cfgDisable,       \* LOGGING_CONFIG['disable_existing_loggers']
    logsDir,          \* whether the logs/ directory exists
    root,             \* the root logger as the last successful dictConfig left it
    appLogger,        \* the application's logger: "none", "enabled", "disabled"
    queue,            \* the shared Queue: record ids and sentinels, oldest first
    listeners,        \* one entry per QueueListenerHandler built, in order
    records,          \* the logging calls made so far
    inits,            \* the init calls made so far
    appLog,           \* lines of logs/app.log
    errLog,           \* lines of logs/errors.log
    debugLog,         \* lines of logs/debug.log
    console,          \* lines of sys.stdout
    exit,             \* the process-exit sequence
    failed,           \* the sink writes that failed
    AnimalService,    \* routers/get_router.py: the module-level Animal object
    request,          \* the HTTP request served last
    response,         \* the body returned for it
    resolveCall       \* the last call of _resolve_handlers: argument and result

cfgVars == <<cfgStreamLevel, cfgRootLevel, cfgQueueHandlers, cfgRootHandlers,
             cfgPropagate, cfgDisable>>
sinkVars == <<appLog, errLog, debugLog, console>>
logVars == <<cfgStreamLevel, cfgRootLevel, cfgQueueHandlers, cfgRootHandlers,
             cfgPropagate, cfgDisable, logsDir, root, appLogger, queue,
             listeners, records, inits, appLog, errLog, debugLog, console, exit>>
webVars == <<AnimalService, request, response>>
vars == <<cfgStreamLevel, cfgRootLevel, cfgQueueHandlers, cfgRootHandlers,
          cfgPropagate, cfgDisable, logsDir, root, appLogger, queue,
          listeners, records, inits, appLog, errLog, debugLog, console, exit,
          failed, AnimalService, request, response, resolveCall>>

\* --------------------------------------------------------------- helpers
SeqToSet(s) == {s[i] : i \in 1..Len(s)}

\* ----------------------------------------------- the handler definitions
\* HandlerLevel with the error handler's threshold one level too low.
HandlerLevel_ErrorAtInfo(h) ==
    CASE h = "app_handler" -> INFO
      [] h = "debug_handler" -> DEBUG
      [] h = "error_handler" -> INFO

\* 'level' of each entry of LOGGING_CONFIG['handlers'] that writes a file.
HandlerLevel(h) ==
    CASE h = "app_handler" -> INFO
      [] h = "debug_handler" -> DEBUG
      [] h = "error_handler" -> WARNING

\* 'filename' of each file handler.
HandlerFile(h) ==
    CASE h = "app_handler" -> "logs/app.log"
      [] h = "debug_handler" -> "logs/debug.log"
      [] h = "error_handler" -> "logs/errors.log"

\* 'formatter' of each file handler.
HandlerFormatter(h) ==
    IF h = "app_handler" THEN "json" ELSE "debug_json"

\* 'filters' of each file handler.
HandlerFilters(h) ==
    IF h = "app_handler" THEN {"info_filter"} ELSE {}

\* InfoFilter.filter as a threshold instead of an exact match.
InfoFilter_AtLeast(levelno) == levelno >= INFO

\* InfoFilter.filter: exactly INFO.
InfoFilter(levelno) == levelno = INFO

\* cfg://handlers.<name> resolved by indexing the ConvertingList: the file
\* handlers sort before 'queue_handler', so each is already an instance.
CfgConvert(ref) ==
    CASE ref = "cfg://handlers.app_handler" -> "app_handler"
      [] ref = "cfg://handlers.error_handler" -> "error_handler"
      [] ref = "cfg://handlers.debug_handler" -> "debug_handler"

\* What indexing a ConvertingList yields is either a configured handler or,
\* for a handler dictConfig has not built yet, its configuration dict.  Both
\* are written as one record shape; an optional key is <<>> when absent and
\* <<v>> when present.
HandlerItem(name) ==
    [kind |-> "handler", name |-> name, class |-> <<"logging.FileHandler">>,
     stream |-> <<HandlerFile(name)>>, level |-> <<HandlerLevel(name)>>,
     formatter |-> <<HandlerFormatter(name)>>]

DictItem(class, stream, level, formatter) ==
    [kind |-> "dict", name |-> "", class |-> class, stream |-> stream,
     level |-> level, formatter |-> formatter]

\* Line 128: the entry is a dict whose 'class' is 'logging.StreamHandler'.
IsStreamDict(handler) ==
    handler.kind = "dict" /\ handler.class = <<"logging.StreamHandler">>

\* Line 130 reads handler['stream']: a missing key is a KeyError.
RaisesKeyError(handler) == IsStreamDict(handler) /\ handler.stream = <<>>

\* Lines 128-136, one entry: a stream handler built by hand from the dict
\* (its stream, its level or NOTSET, its formatter if it names one), or the
\* entry itself.
ResolveEntry(handler) ==
    IF IsStreamDict(handler)
    THEN [kind |-> "handler", name |-> "", class |-> <<"logging.StreamHandler">>,
          stream |-> handler.stream,
          level |-> <<IF handler.level = <<>> THEN NOTSET ELSE handler.level[1]>>,
          formatter |-> handler.formatter]
    ELSE handler

\* _resolve_handlers(l); lazy says whether l is a ConvertingList.
ResolveList(lazy, l) ==
    IF ~lazy THEN [raised |-> FALSE, value |-> l]
    ELSE IF \E i \in 1..Len(l) : RaisesKeyError(l[i])
    THEN [raised |-> TRUE, value |-> <<>>]
    ELSE [raised |-> FALSE, value |-> [i \in 1..Len(l) |-> ResolveEntry(l[i])]]

\* _resolve_handlers on the ConvertingList of the queue handler: the
\* handlers the listener is built over, by name.
ResolveHandlers(l) ==
    LET r == ResolveList(TRUE, [i \in 1..Len(l) |-> HandlerItem(CfgConvert(l[i]))])
    IN [i \in 1..Len(r.value) |-> r.value[i].name]

\* ----------------------------------------------------------- HTTP service
\* services/first_service.py, Animal.__init__.
Animal(name, species) == [name |-> name, species |-> species]

\* An optional query parameter: <<>> is None (JSON null).
None == <<>>
ItemIds == (0 - MaxItemId)..MaxItemId
Queries == {None, <<"">>, <<"foo">>, <<"bar">>}

\* The decimal digits, as the characters of a path segment.
DigitChar(d) == <<"0", "1", "2", "3", "4", "5", "6", "7", "8", "9">>[d + 1]
DigitVal(c) == CHOOSE d \in 0..9 : DigitChar(d) = c

\* The path segment a client writes for the integer n.
RECURSIVE StrNat(_)
StrNat(n) ==
    IF n < 10 THEN <<DigitChar(n)>>
    ELSE Append(StrNat(n \div 10), DigitChar(n % 10))
Str(n) == IF n < 0 THEN <<"-">> \o StrNat(0 - n) ELSE StrNat(n)

\* 'item_id: int': the path segment converted to the handler's argument.
RECURSIVE ParseNat(_)
ParseNat(s) ==
    IF Len(s) = 0 THEN 0
    ELSE ParseNat(SubSeq(s, 1, Len(s) - 1)) * 10 + DigitVal(s[Len(s)])
ParseInt(s) == IF s[1] = "-" THEN 0 - ParseNat(Tail(s)) ELSE ParseNat(s)

\* The bodies of the three handlers.  Both the handler of "/" and the one
\* of "/Animal" are named read_root in the source; each is registered by
\* its decorator before the name is rebound.
read_root == [message |-> "Hello, World!"]
read_root_Animal(animal) ==
    [message |-> [name |-> animal.name, Species |-> animal.species]]

\* read_item ignoring the query parameter.
read_item_DropsQuery(item_id, q) == [item_id |-> item_id, q |-> None]

read_item(item_id, q) == [item_id |-> item_id, q |-> q]

\* Accepts without respect_handler_level: the listener hands every record to
\* Handler.handle, which applies the filters alone.
Accepts_NoHandlerLevel(h, levelno) ==
    "info_filter" \in HandlerFilters(h) => InfoFilter(levelno)

\* QueueListener.handle with respect_handler_level, then Handler.handle:
\* the handler's level, then its filters.
Accepts(h, levelno) ==
    /\ levelno >= HandlerLevel(h)
    /\ ("info_filter" \in HandlerFilters(h) => InfoFilter(levelno))

\* ------------------------------------------------------------------ Init
\* The module as imported: LOGGING_CONFIG as written, the root logger of a
\* fresh interpreter (level WARNING, no handlers), no listener yet.
Init ==
    /\ cfgStreamLevel = INFO
    /\ cfgRootLevel = INFO
    /\ cfgQueueHandlers = <<"cfg://handlers.app_handler", "cfg://handlers.error_handler">>
    /\ cfgRootHandlers = <<"queue_handler">>
    /\ cfgPropagate = FALSE
    /\ cfgDisable = TRUE
    /\ logsDir \in BOOLEAN
    /\ root = [level |-> WARNING, queueHandler |-> 0, stream |-> FALSE,
               streamLevel |-> NOTSET]
    /\ appLogger = "none"
    /\ queue = <<>>
    /\ listeners = <<>>
    /\ records = <<>>
    /\ inits = <<>>
    /\ appLog = <<>>
    /\ errLog = <<>>
    /\ debugLog = <<>>
    /\ console = <<>>
    /\ exit = [phase |-> "running", hook |-> 0, pc |-> "none",
               returned |-> {}, raised |-> {}]
    /\ failed = {}
    /\ AnimalService = Animal("Simba", "Lion")
    /\ request = [n |-> 0, path |-> "", item_id |-> <<>>, q |-> None]
    /\ response = <<>>
    /\ resolveCall = [called |-> FALSE, lazy |-> FALSE, arg |-> <<>>,
                      raised |-> FALSE, value |-> <<>>]


\* ------------------------------------------------------------------ init
DebugRef == "cfg://handlers.debug_handler"

\* EnableDebugHandler without the membership test.
EnableDebugHandler_NoCheck(l, level) ==
    IF level = DEBUG THEN Append(l, DebugRef) ELSE l

\* Lines 273-274: the debug handler joins the queue handler's list when the
\* level is DEBUG and it is not yet a member.
EnableDebugHandler(l, level) ==
    IF level = DEBUG /\ DebugRef \notin SeqToSet(l) THEN Append(l, DebugRef) ELSE l

\* EnableConsole taking the stream handler off again when console is False.
EnableConsole_Follows(l, cons) ==
    IF cons = TRUE
    THEN (IF "stream" \notin SeqToSet(l) THEN Append(l, "stream") ELSE l)
    ELSE SelectSeq(l, LAMBDA h : h # "stream")

\* Lines 278-279: the stream handler joins the root logger's list when
\* console is True and it is not yet a member.
EnableConsole(l, cons) ==
    IF cons = TRUE /\ "stream" \notin SeqToSet(l) THEN Append(l, "stream") ELSE l

\* QueueListenerHandler.__init__ with auto_run: the new handler's listener,
\* over the resolved handlers, its thread started.
NewListener(handlers) ==
    [handlers |-> ResolveHandlers(handlers), state |-> "running", cur |-> <<>>]

\* dictConfig's treatment of a logger that exists and is not named in
\* 'loggers': disabled = disable_existing_loggers.
HandleExisting(lg, disable) ==
    IF lg = "none" THEN "none" ELSE IF disable THEN "disabled" ELSE "enabled"

\* Lines 269-283 of init: the writes to LOGGING_CONFIG.
MutateConfig(level, disable, propagate, cons) ==
    /\ cfgStreamLevel' = level
    /\ cfgRootLevel' = level
    /\ cfgQueueHandlers' = EnableDebugHandler(cfgQueueHandlers, level)
    /\ cfgRootHandlers' = EnableConsole(cfgRootHandlers, cons)
    /\ cfgPropagate' = propagate
    /\ cfgDisable' = disable

\* init where logs/ exists: dictConfig builds the handlers, the queue handler
\* with a new listener thread on the shared queue (registering its stop with
\* atexit), and rebinds the root logger.  The listeners built by earlier
\* calls are left as they are: nothing stops them.
InitOk(level, disable, propagate, cons) ==
    /\ exit.phase = "running"
    /\ Len(inits) < MaxInits
    /\ logsDir
    /\ MutateConfig(level, disable, propagate, cons)
    /\ listeners' = Append(listeners, NewListener(cfgQueueHandlers'))
    /\ root' = [level |-> cfgRootLevel',
                queueHandler |-> IF "queue_handler" \in SeqToSet(cfgRootHandlers')
                                 THEN Len(listeners') ELSE 0,
                stream |-> "stream" \in SeqToSet(cfgRootHandlers'),
                streamLevel |-> cfgStreamLevel']
    /\ appLogger' = HandleExisting(appLogger, cfgDisable')
    /\ inits' = Append(inits, [level |-> level, console |-> cons, ok |-> TRUE])
    /\ UNCHANGED <<logsDir, queue, records, sinkVars, exit>>
    /\ UNCHANGED <<failed, webVars, resolveCall>>

\* InitFail with the queue handler built before the file handlers are opened.
InitFail_StartsListener(level, disable, propagate, cons) ==
    /\ exit.phase = "running"
    /\ Len(inits) < MaxInits
    /\ ~logsDir
    /\ MutateConfig(level, disable, propagate, cons)
    /\ listeners' = Append(listeners, NewListener(cfgQueueHandlers'))
    /\ inits' = Append(inits, [level |-> level, console |-> cons, ok |-> FALSE])
    /\ UNCHANGED <<logsDir, root, appLogger, queue, records, sinkVars, exit>>
    /\ UNCHANGED <<failed, webVars, resolveCall>>

\* init where logs/ is missing: LOGGING_CONFIG is already written when
\* dictConfig fails to open logs/app.log, the first handler it builds; the
\* queue handler is never constructed.
InitFail(level, disable, propagate, cons) ==
    /\ exit.phase = "running"
    /\ Len(inits) < MaxInits
    /\ ~logsDir
    /\ MutateConfig(level, disable, propagate, cons)
    /\ inits' = Append(inits, [level |-> level, console |-> cons, ok |-> FALSE])
    /\ UNCHANGED <<logsDir, root, appLogger, queue, listeners, records,
                   sinkVars, exit>>
    /\ UNCHANGED <<failed, webVars, resolveCall>>

\* logging.getLogger(__name__) by application code.
GetLogger ==
    /\ exit.phase = "running"
    /\ appLogger = "none"
    /\ appLogger' = "enabled"
    /\ UNCHANGED <<cfgVars, logsDir, root, queue, listeners, records, inits,
                   sinkVars, exit>>
    /\ UNCHANGED <<failed, webVars, resolveCall>>

\* ------------------------------------------------------------- producer
Line(id, thread) == [rec |-> id, thread |-> thread]

\* Fate without the root logger's level.
Fate_NoRootLevel(levelno) ==
    IF root.queueHandler = 0 THEN "nohandler"
    ELSE IF Len(queue) < QueueCapacity THEN "queued"
    ELSE "dropped"

\* Fate with a queue that has no capacity.
Fate_Unbounded(levelno) ==
    IF levelno < root.level THEN "filtered"
    ELSE IF root.queueHandler = 0 THEN "nohandler"
    ELSE "queued"

\* What the queue handler does with a record that reached the root logger:
\* QueueHandler.emit -> put_nowait; queue.Full goes to handleError.
Fate(levelno) ==
    IF levelno < root.level THEN "filtered"
    ELSE IF root.queueHandler = 0 THEN "nohandler"
    ELSE IF Len(queue) < QueueCapacity THEN "queued"
    ELSE "dropped"

\* The stream handler attached to the root logger handles the record in the
\* caller's thread.
StreamAccepts(levelno) ==
    /\ levelno >= root.level
    /\ root.stream
    /\ levelno >= root.streamLevel

\* logger.log(levelno, msg) on the application's logger (no handlers of its
\* own, propagating to the root logger).
EmitUpTo(levelno, most) ==
    /\ exit.phase = "running"
    /\ Len(records) < most
    /\ appLogger = "enabled"
    /\ LET id == Len(records) + 1 IN
        /\ records' = Append(records, [level |-> levelno, epoch |-> Len(inits),
                                       fate |-> Fate(levelno)])
        /\ queue' = IF Fate(levelno) = "queued" THEN Append(queue, id) ELSE queue
        /\ console' = IF StreamAccepts(levelno)
                      THEN Append(console, Line(id, Producer)) ELSE console
    /\ UNCHANGED <<cfgVars, logsDir, root, appLogger, listeners, inits,
                   appLog, errLog, debugLog, exit>>
    /\ UNCHANGED <<failed, webVars, resolveCall>>

\* The logging calls of the program, MaxRecords of them at most.
Emit(levelno) == EmitUpTo(levelno, MaxRecords)

\* A burst of logging calls, long enough to find the queue full.
EmitBurst(levelno) == EmitUpTo(levelno, MaxBurst)

\* ------------------------------------------------------------- listener
\* The lines listener k's handlers append to one file for one record: one
\* per handler of that file that accepts the record, in handler order.
Written(k, file, id) ==
    LET hit(h) == HandlerFile(h) = file /\ Accepts(h, records[id].level)
        hs == SelectSeq(listeners[k].handlers, hit)
    IN [i \in 1..Len(hs) |-> Line(id, k)]

\* QueueListener._monitor: dequeue(True).  A sentinel ends the thread.
Dequeue(k) ==
    /\ listeners[k].state = "running"
    /\ listeners[k].cur = <<>>
    /\ queue # <<>>
    /\ queue' = Tail(queue)
    /\ listeners' = [listeners EXCEPT ![k] =
          IF Head(queue) = Sentinel
          THEN [@ EXCEPT !.state = "terminated"]
          ELSE [@ EXCEPT !.cur = <<Head(queue)>>]]
    /\ UNCHANGED <<cfgVars, logsDir, root, appLogger, records, inits,
                   sinkVars, exit>>
    /\ UNCHANGED <<failed, webVars, resolveCall>>

\* QueueListener.handle: the dequeued record goes to every handler of this
\* listener that accepts it.
Handle(k) ==
    /\ listeners[k].state = "running"
    /\ listeners[k].cur # <<>>
    /\ LET id == listeners[k].cur[1] IN
        /\ appLog' = appLog \o Written(k, "logs/app.log", id)
        /\ errLog' = errLog \o Written(k, "logs/errors.log", id)
        /\ debugLog' = debugLog \o Written(k, "logs/debug.log", id)
    /\ listeners' = [listeners EXCEPT ![k].cur = <<>>]
    /\ UNCHANGED <<cfgVars, logsDir, root, appLogger, queue, records, inits,
                   console, exit>>
    /\ UNCHANGED <<failed, webVars, resolveCall>>

\* ----------------------------------------------------------------- exit
\* atexit runs the registered stop hooks, last registered first.
NextHook(e, how) ==
    IF e.hook = 1
    THEN [phase |-> "done", hook |-> 0, pc |-> "none",
          returned |-> IF how = "returned" THEN e.returned \cup {e.hook} ELSE e.returned,
          raised |-> IF how = "raised" THEN e.raised \cup {e.hook} ELSE e.raised]
    ELSE [phase |-> "hooks", hook |-> e.hook - 1, pc |-> "enqueue",
          returned |-> IF how = "returned" THEN e.returned \cup {e.hook} ELSE e.returned,
          raised |-> IF how = "raised" THEN e.raised \cup {e.hook} ELSE e.raised]

ExitBegin ==
    /\ exit.phase = "running"
    /\ exit' = IF Len(listeners) = 0
               THEN [exit EXCEPT !.phase = "done"]
               ELSE [exit EXCEPT !.phase = "hooks", !.hook = Len(listeners),
                                 !.pc = "enqueue"]
    /\ UNCHANGED <<cfgVars, logsDir, root, appLogger, queue, listeners,
                   records, inits, sinkVars>>
    /\ UNCHANGED <<failed, webVars, resolveCall>>

\* stop -> QueueListener.stop: enqueue_sentinel is put_nowait(None).
StopEnqueue ==
    /\ exit.phase = "hooks"
    /\ exit.pc = "enqueue"
    /\ Len(queue) < QueueCapacity
    /\ queue' = Append(queue, Sentinel)
    /\ exit' = [exit EXCEPT !.pc = "join"]
    /\ UNCHANGED <<cfgVars, logsDir, root, appLogger, listeners, records,
                   inits, sinkVars>>
    /\ UNCHANGED <<failed, webVars, resolveCall>>

\* put_nowait on a full queue raises queue.Full out of stop: the hook ends
\* without a sentinel enqueued and without joining its thread.
StopRaise ==
    /\ exit.phase = "hooks"
    /\ exit.pc = "enqueue"
    /\ Len(queue) >= QueueCapacity
    /\ exit' = NextHook(exit, "raised")
    /\ UNCHANGED <<cfgVars, logsDir, root, appLogger, queue, listeners,
                   records, inits, sinkVars>>
    /\ UNCHANGED <<failed, webVars, resolveCall>>

\* QueueListener.stop: self._thread.join() returns once this hook's own
\* listener thread has ended.
StopJoin ==
    /\ exit.phase = "hooks"
    /\ exit.pc = "join"
    /\ listeners[exit.hook].state = "terminated"
    /\ exit' = NextHook(exit, "returned")
    /\ UNCHANGED <<cfgVars, logsDir, root, appLogger, queue, listeners,
                   records, inits, sinkVars>>
    /\ UNCHANGED <<failed, webVars, resolveCall>>

\* --------------------------------------------------------- specification
Next ==
    \/ \E level \in Levels, disable \in BOOLEAN, propagate \in BOOLEAN, cons \in BOOLEAN :
          InitOk(level, disable, propagate, cons)
    \/ \E level \in Levels, disable \in BOOLEAN, propagate \in BOOLEAN, cons \in BOOLEAN :
          InitFail(level, disable, propagate, cons)
    \/ GetLogger
    \/ \E levelno \in Levels : Emit(levelno)
    \/ \E k \in 1..Len(listeners) : Dequeue(k)
    \/ \E k \in 1..Len(listeners) : Handle(k)
    \/ ExitBegin
    \/ StopEnqueue
    \/ StopRaise
    \/ StopJoin

Spec == Init /\ [][Next]_vars

\* init called once, at start-up, with its default disable_existing_loggers
\* and propagate.
InitDefault(level, cons) == inits = <<>> /\ InitOk(level, FALSE, FALSE, cons)
InitDefaultFail(level, cons) == inits = <<>> /\ InitFail(level, FALSE, FALSE, cons)

\* The program making a burst of logging calls.
NextBurst ==
    \/ \E level \in Levels, cons \in BOOLEAN : InitDefault(level, cons)
    \/ \E level \in Levels, cons \in BOOLEAN : InitDefaultFail(level, cons)
    \/ GetLogger
    \/ \E levelno \in Levels : EmitBurst(levelno)
    \/ \E k \in 1..Len(listeners) : Dequeue(k)
    \/ \E k \in 1..Len(listeners) : Handle(k)
    \/ ExitBegin
    \/ StopEnqueue
    \/ StopRaise
    \/ StopJoin

SpecBurst == Init /\ [][NextBurst]_vars

\* ------------------------------------------------------ failing sink writes
\* StreamHandler.emit with a write that raises, letting the exception out.
EmitResult_Propagates(ok) == [written |-> ok, raised |-> ~ok]

\* StreamHandler.emit (FileHandler.emit ends in it) for one record: ok says
\* whether stream.write and flush succeed.  An exception of theirs is caught
\* in emit and handed to handleError, which reports on stderr and returns.
EmitResult(ok) == [written |-> ok, raised |-> FALSE]

SinkFiles == {"logs/app.log", "logs/errors.log", "logs/debug.log"}

\* One failed write: the record, the sink, the thread that wrote, and
\* whether the exception left emit.
Failure(id, file, thread) ==
    [rec |-> id, file |-> file, thread |-> thread,
     raised |-> EmitResult(FALSE).raised]

\* QueueListener.handle with the writes to the files of bad failing: the
\* handlers are called in order, and an exception that leaves one of them
\* ends the loop.
FailsAt(k, id, bad, i) ==
    /\ Accepts(listeners[k].handlers[i], records[id].level)
    /\ HandlerFile(listeners[k].handlers[i]) \in bad

Reached(k, id, bad, i) ==
    \A j \in 1..(i - 1) : FailsAt(k, id, bad, j) => ~EmitResult(FALSE).raised

WrittenDespite(k, file, id, bad) ==
    LET hs == listeners[k].handlers
        hit(i) == /\ HandlerFile(hs[i]) = file
                  /\ Accepts(hs[i], records[id].level)
                  /\ Reached(k, id, bad, i)
                  /\ EmitResult(~FailsAt(k, id, bad, i)).written
        n == Cardinality({i \in 1..Len(hs) : hit(i)})
    IN [i \in 1..n |-> Line(id, k)]

\* The logging call whose console write fails in the caller's thread.
EmitFailing(levelno) ==
    /\ exit.phase = "running"
    /\ Len(records) < MaxRecords
    /\ Cardinality(failed) < MaxFailures
    /\ appLogger = "enabled"
    /\ StreamAccepts(levelno)
    /\ LET id == Len(records) + 1 IN
        /\ records' = Append(records, [level |-> levelno, epoch |-> Len(inits),
                                       fate |-> Fate(levelno)])
        /\ queue' = IF Fate(levelno) = "queued" THEN Append(queue, id) ELSE queue
        /\ console' = IF EmitResult(FALSE).written
                      THEN Append(console, Line(id, Producer)) ELSE console
        /\ failed' = failed \cup {Failure(id, "sys.stdout", Producer)}
    /\ UNCHANGED <<cfgVars, logsDir, root, appLogger, listeners, inits,
                   appLog, errLog, debugLog, exit>>
    /\ UNCHANGED <<webVars, resolveCall>>

\* QueueListener.handle for a record while the writes to the files of bad
\* fail.  _monitor has no handler for an exception out of handle: one that
\* leaves emit ends the thread.
HandleFailing(k, bad) ==
    /\ listeners[k].state = "running"
    /\ listeners[k].cur # <<>>
    /\ Cardinality(failed) + Cardinality(bad) <= MaxFailures
    /\ LET id == listeners[k].cur[1]
           hs == listeners[k].handlers
           tried == {i \in 1..Len(hs) : FailsAt(k, id, bad, i) /\ Reached(k, id, bad, i)}
       IN
        /\ \A file \in bad : \E i \in 1..Len(hs) : FailsAt(k, id, {file}, i)
        /\ appLog' = appLog \o WrittenDespite(k, "logs/app.log", id, bad)
        /\ errLog' = errLog \o WrittenDespite(k, "logs/errors.log", id, bad)
        /\ debugLog' = debugLog \o WrittenDespite(k, "logs/debug.log", id, bad)
        /\ failed' = failed \cup {Failure(id, HandlerFile(hs[i]), k) : i \in tried}
    /\ listeners' = [listeners EXCEPT ![k] =
          IF EmitResult(FALSE).raised
          THEN [@ EXCEPT !.cur = <<>>, !.state = "terminated"]
          ELSE [@ EXCEPT !.cur = <<>>]]
    /\ UNCHANGED <<cfgVars, logsDir, root, appLogger, queue, records, inits,
                   console, exit>>
    /\ UNCHANGED <<webVars, resolveCall>>

\* One init call, then logging calls and listener steps where any write to
\* a sink may fail.
NextFail ==
    \/ \E level \in Levels, cons \in BOOLEAN :
          \/ InitDefault(level, cons)
          \/ InitDefaultFail(level, cons)
    \/ GetLogger
    \/ \E levelno \in Levels : Emit(levelno) \/ EmitFailing(levelno)
    \/ \E k \in 1..Len(listeners) :
          \/ Dequeue(k)
          \/ Handle(k)
          \/ \E bad \in (SUBSET SinkFiles) \ {{}} : HandleFailing(k, bad)
    \/ ExitBegin
    \/ StopEnqueue
    \/ StopRaise
    \/ StopJoin

SpecFail == Init /\ [][NextFail]_vars

\* ---------------------------------------------------------- HTTP requests
\* One request served: the path, the raw item id segment and the query.
Served(path, segment, q) ==
    [n |-> request.n + 1, path |-> path, item_id |-> segment, q |-> q]

\* GET /
ReadRoot ==
    /\ request.n < MaxRequests
    /\ request' = Served("/", <<>>, None)
    /\ response' = read_root
    /\ UNCHANGED <<logVars, failed, AnimalService, resolveCall>>

\* GET /Animal
ReadAnimal ==
    /\ request.n < MaxRequests
    /\ request' = Served("/Animal", <<>>, None)
    /\ response' = read_root_Animal(AnimalService)
    /\ UNCHANGED <<logVars, failed, AnimalService, resolveCall>>

\* GET /items/{item_id} with a handler that renames the module's Animal.
ReadItem_RenamesAnimal(segment, q) ==
    /\ request.n < MaxRequests
    /\ request' = Served("/items/{item_id}", segment, q)
    /\ response' = read_item(ParseInt(segment), q)
    /\ AnimalService' = Animal(IF q = None THEN "Simba" ELSE q[1], "Lion")
    /\ UNCHANGED <<logVars, failed, resolveCall>>

\* GET /items/{item_id}[?q=...]
ReadItem(segment, q) ==
    /\ request.n < MaxRequests
    /\ request' = Served("/items/{item_id}", segment, q)
    /\ response' = read_item(ParseInt(segment), q)
    /\ UNCHANGED <<logVars, failed, AnimalService, resolveCall>>

NextHttp ==
    \/ ReadRoot
    \/ ReadAnimal
    \/ \E item_id \in ItemIds, q \in Queries : ReadItem(Str(item_id), q)

SpecHttp == Init /\ [][NextHttp]_vars

\* ------------------------------------------------------ _resolve_handlers
\* The entries a list handed to _resolve_handlers may hold: configured
\* handlers, and configuration dicts of a stream handler (with every key,
\* without 'level', without 'formatter', without 'stream'), of a file
\* handler, and of a handler built by a factory (no 'class').
StreamHandlerClass == <<"logging.StreamHandler">>
ResolveItems ==
    {HandlerItem("app_handler"), HandlerItem("error_handler"),
     HandlerItem("debug_handler"),
     DictItem(StreamHandlerClass, <<"ext://sys.stdout">>, <<INFO>>, <<"debug_json">>),
     DictItem(StreamHandlerClass, <<"ext://sys.stdout">>, <<>>, <<"debug_json">>),
     DictItem(StreamHandlerClass, <<"ext://sys.stderr">>, <<WARNING>>, <<>>),
     DictItem(StreamHandlerClass, <<>>, <<INFO>>, <<"debug_json">>),
     DictItem(<<"logging.FileHandler">>, <<"logs/debug.log">>, <<DEBUG>>, <<"debug_json">>),
     DictItem(<<>>, <<>>, <<>>, <<>>)}

RECURSIVE ListsUpTo(_)
ListsUpTo(n) ==
    IF n = 0 THEN {<<>>}
    ELSE LET shorter == ListsUpTo(n - 1)
         IN shorter \cup {Append(l, x) : l \in shorter, x \in ResolveItems}

\* One call of _resolve_handlers(l); lazy says whether l is a ConvertingList.
CallResolve(lazy, l) ==
    /\ resolveCall' = [called |-> TRUE, lazy |-> lazy, arg |-> l,
                       raised |-> ResolveList(lazy, l).raised,
                       value |-> ResolveList(lazy, l).value]
    /\ UNCHANGED <<logVars, failed, webVars>>

NextResolve == \E lazy \in BOOLEAN, l \in ListsUpTo(MaxListLen) : CallResolve(lazy, l)

SpecResolve == Init /\ [][NextResolve]_vars

\* The listener threads and the exit sequence are scheduled: a step of
\* theirs that stays possible is eventually taken.
ListenerStep == \E k \in 1..Len(listeners) : Dequeue(k) \/ Handle(k)
ExitStep == StopEnqueue \/ StopRaise \/ StopJoin

FairSpec == Spec /\ WF_vars(ListenerStep) /\ WF_vars(ExitStep)


\* ---------------------------------------------------------------- claims
Ids == 1..Len(records)

InLog(log, id) == \E i \in 1..Len(log) : log[i].rec = id

Count(log, id) == Cardinality({i \in 1..Len(log) : log[i].rec = id})

\* The record is on the queue or in a listener's hands.
Pending(id) ==
    \/ id \in SeqToSet(queue)
    \/ \E k \in 1..Len(listeners) : listeners[k].cur = <<id>>

\* The record went through the queue and a listener has handled it.
Handled(id) == records[id].fate = "queued" /\ ~Pending(id)

\* The record was emitted after a successful init call.
AfterInit(id) == records[id].epoch >= 1 /\ inits[records[id].epoch].ok

\* The level argument of the init call the record was emitted after.
InitLevel(id) == inits[records[id].epoch].level

\* C1 as stated: once an INFO record emitted after init is no longer under
\* way, it is in app.log, and it is never in errors.log.
C1_InfoAlwaysInAppLog ==
    \A id \in Ids :
        (records[id].level = INFO /\ AfterInit(id)) =>
            /\ ~InLog(errLog, id)
            /\ (Pending(id) \/ InLog(appLog, id))

\* C1 amended: an INFO record emitted after init(level=L) is kept from the
\* queue by the root logger exactly when L is above INFO; every INFO record
\* a listener has handled is in app.log exactly once, a record that did not
\* go through the queue is not in app.log, and no INFO record is in
\* errors.log.
C1_InfoRouting ==
    \A id \in Ids :
        (records[id].level = INFO /\ AfterInit(id)) =>
            /\ ~InLog(errLog, id)
            /\ (records[id].fate = "filtered" <=> InitLevel(id) > INFO)
            /\ (Handled(id) => Count(appLog, id) = 1)
            /\ (records[id].fate # "queued" => ~InLog(appLog, id))

C1_Witness ==
    \E id \in Ids :
        /\ records[id].level = INFO
        /\ AfterInit(id)
        /\ Handled(id)
        /\ InLog(appLog, id)

\* C2 as stated: once a WARNING, ERROR or CRITICAL record emitted after init
\* is no longer under way, it is in errors.log, and it is never in app.log.
C2_SevereAlwaysInErrLog ==
    \A id \in Ids :
        (records[id].level >= WARNING /\ AfterInit(id)) =>
            /\ ~InLog(appLog, id)
            /\ (Pending(id) \/ InLog(errLog, id))

\* C2 amended: a WARNING, ERROR or CRITICAL record emitted after
\* init(level=L) is kept from the queue by the root logger exactly when L is
\* above its level; every such record a listener has handled is in
\* errors.log exactly once, a record that did not go through the queue is
\* not in errors.log, and no such record is in app.log.
C2_SevereRouting ==
    \A id \in Ids :
        (records[id].level >= WARNING /\ AfterInit(id)) =>
            /\ ~InLog(appLog, id)
            /\ (records[id].fate = "filtered" <=> InitLevel(id) > records[id].level)
            /\ (Handled(id) => Count(errLog, id) = 1)
            /\ (records[id].fate # "queued" => ~InLog(errLog, id))

C2_Witness ==
    \E id \in Ids :
        /\ records[id].level \in {WARNING, ERROR, CRITICAL}
        /\ AfterInit(id)
        /\ Handled(id)
        /\ InLog(errLog, id)

\* C3: a record emitted while the most recent init call is one with
\* level=DEBUG is, once a listener has handled it, in debug.log exactly once.
C3_DebugLogExactlyOnce ==
    \A id \in Ids :
        (AfterInit(id) /\ InitLevel(id) = DEBUG /\ Handled(id)) =>
            Count(debugLog, id) = 1

\* C4: a DEBUG record emitted after init(level=DEBUG) is in neither app.log
\* nor errors.log.
C4_DebugRecordOnlyInDebugLog ==
    \A id \in Ids :
        (records[id].level = DEBUG /\ AfterInit(id) /\ InitLevel(id) = DEBUG) =>
            /\ ~InLog(appLog, id)
            /\ ~InLog(errLog, id)

C4_Witness ==
    \E id \in Ids :
        /\ records[id].level = DEBUG
        /\ AfterInit(id)
        /\ InitLevel(id) = DEBUG
        /\ Handled(id)
        /\ InLog(debugLog, id)

\* C5: a record the root logger accepted is on the console if and only if
\* the most recent init call before it was made with console=True.
C5_ConsoleIffLastInit ==
    \A id \in Ids :
        (AfterInit(id) /\ records[id].fate # "filtered") =>
            (InLog(console, id) <=> inits[records[id].epoch].console)

\* The records of a sink appear in the order they were emitted.
InOrder(log) ==
    \A i, j \in 1..Len(log) : i < j => log[i].rec <= log[j].rec

\* C6: in every log file, records appear in the order the producer enqueued
\* them.
C6_FifoPerSink == InOrder(appLog) /\ InOrder(errLog) /\ InOrder(debugLog)

\* The thread behind every line of a sink is a listener thread.
ByListener(log) == \A i \in 1..Len(log) : log[i].thread # Producer

\* C7: every line of the console and of the log files is written by a
\* listener thread, never by the producer's logging call.
C7_SinkWritesByListener ==
    ByListener(console) /\ ByListener(appLog) /\ ByListener(errLog)
        /\ ByListener(debugLog)

Running == {k \in 1..Len(listeners) : listeners[k].state = "running"}

\* C8: while the process runs, after a successful init call exactly one
\* listener thread is running on the queue.
C8_OneListener ==
    (exit.phase = "running" /\ Len(listeners) >= 1) => Cardinality(Running) = 1

\* The exit sequence waits in a join that nothing can end: its thread runs,
\* the queue is empty and no listener holds a record.
ShutdownStuck ==
    /\ exit.phase = "hooks"
    /\ exit.pc = "join"
    /\ listeners[exit.hook].state = "running"
    /\ queue = <<>>
    /\ \A k \in 1..Len(listeners) : listeners[k].cur = <<>>

\* C9: the exit sequence never blocks forever in a stop hook.
C9_ShutdownNeverBlocks == ~ShutdownStuck

\* C10: once a stop hook has ended, no record is left on the queue or in a
\* listener's hands.
C10_DrainedWhenHookEnds ==
    (exit.returned \cup exit.raised # {}) => \A id \in Ids : ~Pending(id)

\* How often x occurs in the list s.
Occurrences(s, x) == Cardinality({i \in 1..Len(s) : s[i] = x})

\* C11: after any init calls the debug handler's reference occurs at most
\* once in the queue handler's list and the stream handler at most once in
\* the root logger's list.
C11_AttachedAtMostOnce ==
    /\ Occurrences(cfgQueueHandlers, DebugRef) <= 1
    /\ Occurrences(cfgRootHandlers, "stream") <= 1

C11_Witness ==
    /\ Len(inits) >= 2
    /\ \A i \in 1..Len(inits) : inits[i].level = DEBUG /\ inits[i].console
    /\ Occurrences(cfgQueueHandlers, DebugRef) = 1
    /\ Occurrences(cfgRootHandlers, "stream") = 1

InAnySink(id) ==
    InLog(console, id) \/ InLog(appLog, id) \/ InLog(errLog, id) \/ InLog(debugLog, id)

\* C12: after init(level=L) a record below L is in no sink, and a record at
\* or above L is handed to the queue handler (which enqueues it, or drops it
\* when the queue is full).
C12_RootLevelGate ==
    \A id \in Ids :
        AfterInit(id) =>
            /\ (records[id].level < InitLevel(id) =>
                    records[id].fate = "filtered" /\ ~InAnySink(id))
            /\ (records[id].level >= InitLevel(id) =>
                    records[id].fate \in {"queued", "dropped"})

C12_Witness ==
    \E a, b \in Ids :
        /\ AfterInit(a) /\ records[a].level < InitLevel(a)
        /\ AfterInit(b) /\ records[b].level >= InitLevel(b)
        /\ Handled(b) /\ InAnySink(b)

\* C13: the queue never holds more than its capacity, and a logging call
\* made while the queue is full completes with the queue as it was, the
\* record not enqueued.
C13_QueueBoundedDropOnFull ==
    /\ [](Len(queue) <= QueueCapacity)
    /\ [][(Len(records') = Len(records) + 1 /\ Len(queue) = QueueCapacity) =>
             (queue' = queue /\ records'[Len(records')].fate # "queued")]_vars

C13_Witness ==
    /\ Len(queue) = QueueCapacity
    /\ \E id \in Ids : records[id].fate = "dropped"

\* C14: where logs/ does not exist every init call fails, and a failing
\* call starts no listener thread: there are as many listeners as successful
\* calls.
C14_FailedInitStartsNoListener ==
    /\ (~logsDir => \A i \in 1..Len(inits) : ~inits[i].ok)
    /\ Len(listeners) = Cardinality({i \in 1..Len(inits) : inits[i].ok})

C14_Witness ==
    /\ ~logsDir
    /\ Len(inits) >= 1
    /\ ~inits[Len(inits)].ok
    /\ listeners = <<>>
    /\ root.queueHandler = 0


\* C17: a write to a sink that fails stays where it happened.  The exception
\* never leaves the handler: the logging call of the producer returns, and
\* the listener thread keeps running (it ends only on the sentinel of the
\* exit sequence); a record the listener has handled is in every file whose
\* handler accepts it, except the files whose write failed for that record.
C17_WriteFailureSwallowed ==
    /\ \A f \in failed : ~f.raised
    /\ \A k \in 1..Len(listeners) :
          listeners[k].state = "terminated" => exit.phase # "running"
    /\ \A id \in Ids : \A k \in 1..Len(listeners) :
          \A i \in 1..Len(listeners[k].handlers) :
             LET h == listeners[k].handlers[i]
                 log == CASE HandlerFile(h) = "logs/app.log" -> appLog
                          [] HandlerFile(h) = "logs/errors.log" -> errLog
                          [] HandlerFile(h) = "logs/debug.log" -> debugLog
                 lost == \E f \in failed : f.rec = id /\ f.file = HandlerFile(h)
             IN (Handled(id) /\ Accepts(h, records[id].level)) =>
                    (InLog(log, id) <=> ~lost)

\* The write of record 1 to logs/errors.log failed; the listener is running,
\* the record is in logs/debug.log, and the later record 2 is in both files
\* and on the console.
C17_Witness ==
    /\ \E f \in failed : f.rec = 1 /\ f.file = "logs/errors.log"
    /\ Len(listeners) = 1 /\ listeners[1].state = "running"
    /\ exit.phase = "running"
    /\ ~InLog(errLog, 1) /\ InLog(debugLog, 1)
    /\ Len(records) = 2
    /\ InLog(errLog, 2) /\ InLog(debugLog, 2) /\ InLog(console, 2)

C15_AnimalNeverChanges ==
    /\ AnimalService = Animal("Simba", "Lion")
    /\ request.path = "/Animal" =>
           response = [message |-> [name |-> "Simba", Species |-> "Lion"]]

\* GET /Animal answered as the last of MaxRequests requests.
C15_Witness ==
    /\ request.path = "/Animal"
    /\ request.n = MaxRequests
    /\ response.message.name = "Simba"

\* C16: GET /items/{item_id} for the integer item_id, with or without q,
\* returns {"item_id": item_id, "q": q}; q is null when the query parameter
\* is absent.
C16_ItemEchoed ==
    request.path = "/items/{item_id}" =>
        /\ \E item_id \in ItemIds :
               /\ request.item_id = Str(item_id)
               /\ response = [item_id |-> item_id, q |-> request.q]
        /\ request.q = None => response.q = None

\* GET /items/-42?q=foo answered with item_id -42 and q "foo".
C16_Witness ==
    /\ request.path = "/items/{item_id}"
    /\ request.item_id = <<"-", "4", "2">>
    /\ request.q = <<"foo">>
    /\ response = [item_id |-> 0 - 42, q |-> <<"foo">>]

\* C19: _resolve_handlers returns its argument as it is when the argument is
\* not a ConvertingList; for a ConvertingList the call returns a list of the
\* same length and order where each dict naming 'logging.StreamHandler' has
\* become a stream handler with the dict's stream, its level (NOTSET when
\* the dict has none) and its formatter, and every other entry is the entry
\* itself.
C19_ResolveBuildsStreamHandlers ==
    resolveCall.called =>
        /\ ~resolveCall.raised
        /\ IF ~resolveCall.lazy THEN resolveCall.value = resolveCall.arg
           ELSE /\ Len(resolveCall.value) = Len(resolveCall.arg)
                /\ \A i \in 1..Len(resolveCall.arg) :
                      LET given == resolveCall.arg[i]
                          got == resolveCall.value[i]
                      IN IF given.kind = "dict" /\ given.class = <<"logging.StreamHandler">>
                         THEN /\ got.kind = "handler"
                              /\ got.class = <<"logging.StreamHandler">>
                              /\ got.stream = given.stream
                              /\ got.level = IF given.level = <<>> THEN <<NOTSET>>
                                             ELSE given.level
                              /\ got.formatter = given.formatter
                         ELSE got = given

=========================================================================
